---- MODULE Spec2Model ----
(***************************************************************************)
(* Model of the session & resilient API-access layer of the PolicyCheck    *)
(* dashboard client: the crawl-status pollers of the Progress and          *)
(* CrawlPage views (setInterval based), the axios client's interceptors,   *)
(* and the AuthProvider session controller.                                *)
(***************************************************************************)
EXTENDS Integers, Sequences, FiniteSets, TLC

(* ---------------------------------------------------------------------- *)
(* Bounds of the model                                                     *)
(* ---------------------------------------------------------------------- *)
MaxJobs == 2
MaxRequests == 3
MaxTimers == 2

JobIds == 1..MaxJobs

(* ---------------------------------------------------------------------- *)
(* Crawl job statuses (CrawlStatusResponse.status)                          *)
(* ---------------------------------------------------------------------- *)
TerminalStatuses == {"completed", "failed", "stopped"}

\* the test both tick callbacks apply to a received status
IsTerminal(s) == s = "completed" \/ s = "failed" \/ s = "stopped"

\* useState<CrawlStatusResponse | null>(null)
NoSnapshot == [id |-> 0, status |-> "null"]

VARIABLES
    view,          \* which view instance is modelled: "none", "Progress", "CrawlPage"
    mounted,       \* the view is currently mounted
    crawlIdParam,  \* Progress: searchParams.get("crawl_id"), 0 for null
    cleanupArmed,  \* Progress: the last effect run returned a cleanup function
    crawl,         \* Progress: useState crawl
    crawlStatus,   \* CrawlPage: useState crawlStatus
    error,         \* useState error of the view
    starting,      \* CrawlPage: useState starting
    pollRef,       \* pollRef.current, 0 for null, else an interval id
    timers,        \* intervals active in the browser, [tid, id] (id: closure's crawl id)
    nextTid,       \* next id setInterval returns
    inflight,      \* HTTP requests sent and not yet delivered to their continuation
    nextRid,       \* sequence number of the next request
    serverJob,     \* server side: status of each crawl job, "none" when not created
    applied,       \* history: [rid, sess] of the request whose response is the stored snapshot
    termSeen,      \* history: a fetch of the current polling session returned a terminal status
    failSeen,      \* history: a fetch of the current polling session failed
    storeToken,    \* localStorage 'access_token': <<>> when absent, else <<string>>
    storeUser,     \* localStorage 'user': <<>> when absent, else <<JSON text>>
    user,          \* AuthProvider useState user: <<>> for null, else <<User>>
    token,         \* AuthProvider useState token: <<>> for null, else <<string>>
    loading,       \* AuthProvider useState loading
    path,          \* window.location.pathname
    navPending,    \* window.location.href was assigned, the document is about to be replaced
    calls,         \* requests sent through the axios client and not yet answered
    nextCall,      \* sequence number of the next call
    lastResp,      \* history: the response the client processed last
    crashed,       \* the mount effect of AuthProvider threw: React removed the application
    logoutAt,      \* history: nextCall when logout() last ran, 0 if it never ran
    listIn,        \* list fetch: the filters passed and what the server answers
    listOut        \* list fetch: the envelope the operation resolved with

pollVars == <<view, mounted, crawlIdParam, cleanupArmed, crawl, crawlStatus, error,
              starting, pollRef, timers, nextTid, inflight, nextRid, serverJob,
              applied, termSeen, failSeen>>

sessVars == <<storeToken, storeUser, user, token, loading, path, navPending,
              calls, nextCall, lastResp, crashed, logoutAt>>

listVars == <<listIn, listOut>>

vars == <<pollVars, sessVars, listVars>>

(* ---------------------------------------------------------------------- *)
(* List normalisation: documentsApi.getDocuments, auditApi.getAuditLog     *)
(* ---------------------------------------------------------------------- *)
MaxTotal == 3
MaxLimit == 2
MaxPage == 2
MaxRows == 2

\* JavaScript values: undefined (also a key that is missing), null, numbers,
\* booleans and arrays
Undefined == [t |-> "undefined", n |-> 0, a |-> <<>>]
Null == [t |-> "null", n |-> 0, a |-> <<>>]
Num(k) == [t |-> "number", n |-> k, a |-> <<>>]
False == [t |-> "boolean", n |-> 0, a |-> <<>>]
Arr(x) == [t |-> "array", n |-> 0, a |-> x]
Obj == [t |-> "object", n |-> 0, a |-> <<>>]

\* ToBoolean: undefined, null, 0, -0 and false are falsy, every array and
\* object is truthy
Truthy(v) ==
    \/ v.t \in {"array", "object"}
    \/ v.t = "number" /\ v.n # 0
    \/ v.t = "boolean" /\ v.n = 1

\* a || b
Or(a, b) == IF Truthy(a) THEN a ELSE b

\* one key of { ...defaults, ...data }: a key data has wins, null included
Spread(default, over) == IF over = Undefined THEN default ELSE over

\* Math.ceil(a / b) of the real quotient, b # 0
CeilDiv(a, b) == IF b > 0 THEN -((-a) \div b) ELSE -(a \div (-b))

DefaultLimit == 20
AuditPageSize == 50

\* documents.ts EMPTY_RESPONSE
EMPTY_RESPONSE ==
    [api |-> "documents", documents |-> Arr(<<>>), total |-> Num(0),
     limit |-> Num(DefaultLimit), offset |-> Num(0), has_more |-> False,
     items |-> Arr(<<>>), pages |-> Num(1), page |-> Num(1),
     page_size |-> Num(DefaultLimit)]

AUDIT_EMPTY_RESPONSE_AsDocuments ==
    [api |-> "audit", entries |-> Arr(<<>>), total |-> Num(0), page |-> Num(1),
     page_size |-> Num(DefaultLimit)]

\* audit.ts EMPTY_RESPONSE
AUDIT_EMPTY_RESPONSE ==
    [api |-> "audit", entries |-> Arr(<<>>), total |-> Num(0), page |-> Num(1),
     page_size |-> Num(AuditPageSize)]

\* auth.ts EMPTY_PIPELINE
EMPTY_PIPELINE ==
    [api |-> "pipeline", stages |-> Obj, funnel_rates |-> Obj, total_processed |-> Num(0),
     avg_confidence |-> Num(0), error_rate |-> Num(0)]

\* auth.ts EMPTY_DASHBOARD
EMPTY_DASHBOARD ==
    [api |-> "dashboard", total_documents |-> Num(0), needs_review |-> Num(0),
     auto_approved |-> Num(0), user_approved |-> Num(0), by_classification |-> Obj,
     by_country |-> Obj, recent_activity |-> Arr(<<>>)]

\* the default envelope of each list-fetch operation
EmptyEnvelope(api) ==
    CASE api = "documents" -> EMPTY_RESPONSE
      [] api = "audit" -> AUDIT_EMPTY_RESPONSE
      [] api = "pipeline" -> EMPTY_PIPELINE
      [] api = "dashboard" -> EMPTY_DASHBOARD

CatchUnauthorizedRethrown(api, kind) ==
    IF kind = "401" THEN [api |-> "rejected"] ELSE EmptyEnvelope(api)

\* catch { return EMPTY } of the four list-fetch operations
Catch(api, kind) == EmptyEnvelope(api)

\* a response object with no key at all; also the filters of a call without filters
NoData ==
    [rows |-> Undefined, total |-> Undefined, limit |-> Undefined, page |-> Undefined,
     page_size |-> Undefined]

NoFilters == [limit |-> Undefined, page |-> Undefined]

PageSizeFilterFirst(data, filters) ==
    Or(Or(filters.limit, data.limit), Num(DefaultLimit))

\* const limit = data.limit || filters.limit || 20
PageSize(data, filters) == Or(Or(data.limit, filters.limit), Num(DefaultLimit))

\* documentsApi.getDocuments, try branch after the await
getDocuments(filters, responseData) ==
    LET data == IF responseData.body THEN responseData.data ELSE NoData
        docs == Or(data.rows, Arr(<<>>))
        total == Or(data.total, Num(0))
        limit == PageSize(data, filters)
        ratio == IF total.t = "number" /\ limit.t = "number"
                 THEN Num(CeilDiv(total.n, limit.n)) ELSE Undefined
    IN  [api |-> "documents",
         documents |-> docs,
         total |-> total,
         limit |-> Spread(EMPTY_RESPONSE.limit, data.limit),
         offset |-> EMPTY_RESPONSE.offset,
         has_more |-> EMPTY_RESPONSE.has_more,
         items |-> docs,
         pages |-> Or(ratio, Num(1)),
         page |-> Or(filters.page, Num(1)),
         page_size |-> limit]

\* auditApi.getAuditLog, try branch after the await
getAuditLog(responseData) ==
    LET data == IF responseData.body THEN responseData.data ELSE NoData
    IN  [api |-> "audit",
         entries |-> Spread(AUDIT_EMPTY_RESPONSE.entries, data.rows),
         total |-> Spread(AUDIT_EMPTY_RESPONSE.total, data.total),
         page |-> Spread(AUDIT_EMPTY_RESPONSE.page, data.page),
         page_size |-> Spread(AUDIT_EMPTY_RESPONSE.page_size, data.page_size)]

\* statsApi.getPipelineStats, try branch after the await
getPipelineStats(responseData) ==
    LET has == responseData.body
        data == responseData.data
    IN  [api |-> "pipeline",
         stages |-> IF has THEN Spread(EMPTY_PIPELINE.stages, data.stages)
                    ELSE EMPTY_PIPELINE.stages,
         funnel_rates |-> IF has THEN Spread(EMPTY_PIPELINE.funnel_rates, data.funnel_rates)
                          ELSE EMPTY_PIPELINE.funnel_rates,
         total_processed |-> IF has
                             THEN Spread(EMPTY_PIPELINE.total_processed, data.total_processed)
                             ELSE EMPTY_PIPELINE.total_processed,
         avg_confidence |-> IF has
                            THEN Spread(EMPTY_PIPELINE.avg_confidence, data.avg_confidence)
                            ELSE EMPTY_PIPELINE.avg_confidence,
         error_rate |-> IF has THEN Spread(EMPTY_PIPELINE.error_rate, data.error_rate)
                        ELSE EMPTY_PIPELINE.error_rate]

\* statsApi.getDashboardStats, try branch after the await
getDashboardStats(responseData) ==
    LET has == responseData.body
        data == responseData.data
        E == EMPTY_DASHBOARD
    IN  [api |-> "dashboard",
         total_documents |-> IF has THEN Spread(E.total_documents, data.total_documents)
                             ELSE E.total_documents,
         needs_review |-> IF has THEN Spread(E.needs_review, data.needs_review)
                          ELSE E.needs_review,
         auto_approved |-> IF has THEN Spread(E.auto_approved, data.auto_approved)
                           ELSE E.auto_approved,
         user_approved |-> IF has THEN Spread(E.user_approved, data.user_approved)
                           ELSE E.user_approved,
         by_classification |-> IF has
                               THEN Spread(E.by_classification, data.by_classification)
                               ELSE E.by_classification,
         by_country |-> IF has THEN Spread(E.by_country, data.by_country)
                        ELSE E.by_country,
         recent_activity |-> IF has THEN Spread(E.recent_activity, data.recent_activity)
                             ELSE E.recent_activity]

\* the ways client.get can reject
ErrorKinds == {"network", "timeout", "401", "4xx", "5xx"}

\* the ways client.get can resolve: a parsed body, or a body that is not JSON,
\* which axios hands over as a string (a spread of it adds index keys only)
Fulfilled == {"ok", "malformed"}

\* the list-fetch operations
ListApis == {"documents", "audit", "pipeline", "dashboard"}

Counts == {Undefined, Null, Num(MaxTotal)}
Rates == {Undefined, Num(1)}
Maps == {Undefined, Obj}

Totals == {Undefined, Null} \cup {Num(k) : k \in -MaxTotal..MaxTotal}
Limits == {Undefined, Null} \cup {Num(k) : k \in -MaxLimit..MaxLimit}
PageNumbers == {Undefined, Null} \cup {Num(k) : k \in -MaxPage..MaxPage}
Rows == {Undefined, Null} \cup {Arr([i \in 1..k |-> i]) : k \in 0..MaxRows}

\* no list fetch has been called / has resolved
NoList == [api |-> "none"]

ListIdle ==
    /\ listIn = NoList
    /\ listOut = NoList

\* a call of getDocuments and the answer the server will give
DocumentsCalls ==
    {[api |-> "documents", outcome |-> "ok", filters |-> [limit |-> fl, page |-> fp],
      response |-> [body |-> TRUE,
                    data |-> [rows |-> r, total |-> t, limit |-> l, page |-> Undefined,
                              page_size |-> Undefined]]] :
        fl \in Limits \ {Null}, fp \in PageNumbers \ {Null}, r \in Rows, t \in Totals,
        l \in Limits}

\* a call of getAuditLog and the answer the server will give
AuditCalls ==
    {[api |-> "audit", outcome |-> "ok", filters |-> [limit |-> fl, page |-> Undefined],
      response |-> [body |-> TRUE,
                    data |-> [rows |-> r, total |-> t, limit |-> Undefined, page |-> pg,
                              page_size |-> ps]]] :
        fl \in Limits \ {Null}, r \in Rows, t \in Totals, pg \in PageNumbers,
        ps \in Limits}

\* a call of getPipelineStats and the answer the server will give
PipelineCalls ==
    {[api |-> "pipeline", outcome |-> "ok", filters |-> NoFilters,
      response |-> [body |-> TRUE,
                    data |-> [stages |-> st, funnel_rates |-> fr, total_processed |-> tp,
                              avg_confidence |-> ac, error_rate |-> er]]] :
        st \in Maps \cup {Null}, fr \in Maps, tp \in Counts, ac \in Rates, er \in Rates}

\* a call of getDashboardStats and the answer the server will give
DashboardCalls ==
    {[api |-> "dashboard", outcome |-> "ok", filters |-> NoFilters,
      response |-> [body |-> TRUE,
                    data |-> [total_documents |-> td, needs_review |-> nr,
                              auto_approved |-> aa, user_approved |-> ua,
                              by_classification |-> bc, by_country |-> by,
                              recent_activity |-> ra]]] :
        td \in Counts, nr \in Rates, aa \in Rates, ua \in Rates, bc \in Maps,
        by \in Maps, ra \in Rows}

\* calls answered with an empty or unparseable body, and calls whose request rejects
BareCalls ==
    {c \in {[api |-> a, outcome |-> o, filters |-> [limit |-> fl, page |-> Undefined],
             response |-> [body |-> FALSE, data |-> NoData]] :
                a \in ListApis, o \in Fulfilled \cup ErrorKinds, fl \in Limits \ {Null}} :
        c.api \in {"pipeline", "dashboard"} => c.filters = NoFilters}

\* documentsApi.getDocuments settles
GetDocuments ==
    /\ listIn.api = "documents"
    /\ listOut = NoList
    /\ listOut' = IF listIn.outcome \in Fulfilled
                  THEN getDocuments(listIn.filters, listIn.response)
                  ELSE Catch("documents", listIn.outcome)
    /\ UNCHANGED <<pollVars, sessVars, listIn>>

\* auditApi.getAuditLog settles
GetAuditLog ==
    /\ listIn.api = "audit"
    /\ listOut = NoList
    /\ listOut' = IF listIn.outcome \in Fulfilled
                  THEN getAuditLog(listIn.response)
                  ELSE Catch("audit", listIn.outcome)
    /\ UNCHANGED <<pollVars, sessVars, listIn>>

\* statsApi.getPipelineStats settles
GetPipelineStats ==
    /\ listIn.api = "pipeline"
    /\ listOut = NoList
    /\ listOut' = IF listIn.outcome \in Fulfilled
                  THEN getPipelineStats(listIn.response)
                  ELSE Catch("pipeline", listIn.outcome)
    /\ UNCHANGED <<pollVars, sessVars, listIn>>

\* statsApi.getDashboardStats settles
GetDashboardStats ==
    /\ listIn.api = "dashboard"
    /\ listOut = NoList
    /\ listOut' = IF listIn.outcome \in Fulfilled
                  THEN getDashboardStats(listIn.response)
                  ELSE Catch("dashboard", listIn.outcome)
    /\ UNCHANGED <<pollVars, sessVars, listIn>>

ListNext ==
    \/ GetDocuments
    \/ GetAuditLog
    \/ GetPipelineStats
    \/ GetDashboardStats

\* the snapshot the mounted view shows
Snapshot == IF view = "Progress" THEN crawl ELSE crawlStatus

(* ---------------------------------------------------------------------- *)
(* Timers                                                                  *)
(* ---------------------------------------------------------------------- *)
\* if (pollRef.current) clearInterval(pollRef.current)
ClearInterval(ts, ref) == IF ref # 0 THEN {t \in ts : t.tid # ref} ELSE ts

\* setInterval(async () => {...}, ms) with crawl id `id` in its closure
SetInterval(ts, id) == ts \cup {[tid |-> nextTid, id |-> id]}

\* a status request issued by the session whose interval is `sess`
StatusRequest(kind, id, sess) ==
    [rid |-> nextRid, kind |-> kind, id |-> id, sess |-> sess,
     resp |-> "pending", status |-> "none"]

InitPoll ==
    /\ view = "none"
    /\ mounted = FALSE
    /\ crawlIdParam = 0
    /\ cleanupArmed = FALSE
    /\ crawl = NoSnapshot
    /\ crawlStatus = NoSnapshot
    /\ error = ""
    /\ starting = FALSE
    /\ pollRef = 0
    /\ timers = {}
    /\ nextTid = 1
    /\ inflight = {}
    /\ nextRid = 1
    /\ serverJob = [j \in JobIds |-> "none"]
    /\ applied = [rid |-> 0, sess |-> 0]
    /\ termSeen = FALSE
    /\ failSeen = FALSE

(* ---------------------------------------------------------------------- *)
(* Progress view                                                           *)
(* ---------------------------------------------------------------------- *)
\* body of the polling effect for parameter p, run on the timers ts left by
\* the previous cleanup
ProgressEffect(p, ts) ==
    IF p = 0
    THEN /\ cleanupArmed' = FALSE
         /\ timers' = ts
         /\ UNCHANGED <<pollRef, nextTid, inflight, nextRid, termSeen, failSeen>>
    ELSE /\ nextRid <= MaxRequests
         /\ nextTid <= MaxTimers
         /\ inflight' = inflight \cup {StatusRequest("immediate", p, nextTid)}
         /\ nextRid' = nextRid + 1
         /\ pollRef' = nextTid
         /\ timers' = SetInterval(ts, p)
         /\ nextTid' = nextTid + 1
         /\ cleanupArmed' = TRUE
         /\ termSeen' = FALSE
         /\ failSeen' = FALSE

\* cleanup returned by the effect
ProgressCleanup(ts) == IF cleanupArmed THEN ClearInterval(ts, pollRef) ELSE ts

MountProgress(p) ==
    /\ UNCHANGED <<sessVars, listVars>>
    /\ view = "none"
    /\ view' = "Progress"
    /\ mounted' = TRUE
    /\ crawlIdParam' = p
    /\ ProgressEffect(p, timers)
    /\ UNCHANGED <<crawl, crawlStatus, error, starting, serverJob, applied>>

ProgressParamChange(p) ==
    /\ UNCHANGED <<sessVars, listVars>>
    /\ view = "Progress"
    /\ mounted
    /\ p # crawlIdParam
    /\ crawlIdParam' = p
    /\ ProgressEffect(p, ProgressCleanup(timers))
    /\ UNCHANGED <<view, mounted, crawl, crawlStatus, error, starting, serverJob, applied>>

(* ---------------------------------------------------------------------- *)
(* CrawlPage view                                                          *)
(* ---------------------------------------------------------------------- *)
MountCrawlPage ==
    /\ UNCHANGED <<sessVars, listVars>>
    /\ view = "none"
    /\ view' = "CrawlPage"
    /\ mounted' = TRUE
    /\ UNCHANGED <<crawlIdParam, cleanupArmed, crawl, crawlStatus, error, starting,
                   pollRef, timers, nextTid, inflight, nextRid, serverJob,
                   applied, termSeen, failSeen>>

\* handleStart up to its await
HandleStart ==
    /\ UNCHANGED <<sessVars, listVars>>
    /\ view = "CrawlPage"
    /\ mounted
    /\ ~starting
    /\ crawlStatus.status # "running"
    /\ error' = ""
    /\ starting' = TRUE
    /\ inflight' = inflight \cup
          {[rid |-> 0, kind |-> "start", id |-> 0, sess |-> 0,
            resp |-> "pending", status |-> "none"]}
    /\ UNCHANGED <<view, mounted, crawlIdParam, cleanupArmed, crawl, crawlStatus,
                   pollRef, timers, nextTid, nextRid, serverJob, applied, termSeen,
                   failSeen>>

\* variant: the previous interval is not cleared
PollStatusTimersNoClear(ts, ref, crawlId) == SetInterval(ts, crawlId)

\* pollStatus: if (pollRef.current) clearInterval(pollRef.current); then setInterval
PollStatusTimers(ts, ref, crawlId) == SetInterval(ClearInterval(ts, ref), crawlId)

\* pollStatus(crawlId), reqs being the requests still in flight
PollStatus(crawlId, reqs) ==
    /\ nextRid <= MaxRequests
    /\ nextTid <= MaxTimers
    /\ inflight' = reqs \cup {StatusRequest("immediate", crawlId, nextTid)}
    /\ nextRid' = nextRid + 1
    /\ timers' = PollStatusTimers(timers, pollRef, crawlId)
    /\ pollRef' = nextTid
    /\ nextTid' = nextTid + 1
    /\ termSeen' = FALSE
    /\ failSeen' = FALSE

\* handleStart after its await: the start request r has settled, ok telling
\* whether the caller received the answer (else transport error or non-2xx)
StartCrawlResolve(r, ok) ==
    /\ UNCHANGED <<sessVars, listVars>>
    /\ r \in inflight
    /\ r.kind = "start"
    /\ ok => r.resp = "ok"
    /\ IF ok
       THEN /\ PollStatus(r.id, inflight \ {r})
            /\ UNCHANGED error
       ELSE /\ inflight' = inflight \ {r}
            /\ error' = IF mounted THEN "Failed to start crawl." ELSE error
            /\ UNCHANGED <<nextRid, timers, pollRef, nextTid, termSeen, failSeen>>
    /\ starting' = IF mounted THEN FALSE ELSE starting
    /\ UNCHANGED <<view, mounted, crawlIdParam, cleanupArmed, crawl, crawlStatus,
                   serverJob, applied>>

(* ---------------------------------------------------------------------- *)
(* Both views                                                              *)
(* ---------------------------------------------------------------------- *)
\* the view is removed: React runs the effect cleanups
Unmount ==
    /\ UNCHANGED <<sessVars, listVars>>
    /\ mounted
    /\ mounted' = FALSE
    /\ timers' = IF view = "Progress" THEN ProgressCleanup(timers)
                 ELSE ClearInterval(timers, pollRef)
    /\ UNCHANGED <<view, crawlIdParam, cleanupArmed, crawl, crawlStatus, error, starting,
                   pollRef, nextTid, inflight, nextRid, serverJob,
                   applied, termSeen, failSeen>>

\* an interval fires: the async callback runs up to its await. Requests are
\* numbered up to MaxRequests; past that only the interval of a torn-down view
\* goes on firing, one request at a time, all under the last number
Tick(t) ==
    /\ UNCHANGED <<sessVars, listVars>>
    /\ t \in timers
    /\ nextRid <= MaxRequests \/ (~mounted /\ inflight = {})
    /\ inflight' = inflight \cup {StatusRequest("tick", t.id, t.tid)}
    /\ nextRid' = IF nextRid <= MaxRequests THEN nextRid + 1 ELSE nextRid
    /\ UNCHANGED <<view, mounted, crawlIdParam, cleanupArmed, crawl, crawlStatus, error,
                   starting, pollRef, timers, nextTid, serverJob,
                   applied, termSeen, failSeen>>

\* setCrawl / setCrawlStatus: React drops updates of an unmounted component
SetSnapshot(r) ==
    IF mounted
    THEN /\ crawl' = IF view = "Progress" THEN [id |-> r.id, status |-> r.status] ELSE crawl
         /\ crawlStatus' = IF view = "CrawlPage" THEN [id |-> r.id, status |-> r.status]
                           ELSE crawlStatus
         /\ applied' = [rid |-> r.rid, sess |-> r.sess]
    ELSE UNCHANGED <<crawl, crawlStatus, applied>>

\* history of the current polling session
Observe(r, ok) ==
    /\ termSeen' = (termSeen \/ (r.sess = pollRef /\ ok /\ IsTerminal(r.status)))
    /\ failSeen' = (failSeen \/ (r.sess = pollRef /\ ~ok))

\* getCrawlStatus(id).then(setCrawl).catch(...) settles, ok telling whether the
\* caller received the answer (else transport error or non-2xx)
DeliverImmediate(r, ok) ==
    /\ UNCHANGED <<sessVars, listVars>>
    /\ r \in inflight
    /\ r.kind = "immediate"
    /\ ok => r.resp = "ok"
    /\ inflight' = inflight \ {r}
    /\ IF ok
       THEN /\ SetSnapshot(r)
            /\ UNCHANGED error
       ELSE /\ error' = IF view = "Progress" /\ mounted
                        THEN "Could not load crawl status" ELSE error
            /\ UNCHANGED <<crawl, crawlStatus, applied>>
    /\ Observe(r, ok)
    /\ UNCHANGED <<view, mounted, crawlIdParam, cleanupArmed, starting, pollRef, timers,
                   nextTid, nextRid, serverJob>>

\* the interval callback resumes after await getCrawlStatus(id), ok telling
\* whether the await returned the answer or threw
DeliverTick(r, ok) ==
    /\ UNCHANGED <<sessVars, listVars>>
    /\ r \in inflight
    /\ r.kind = "tick"
    /\ ok => r.resp = "ok"
    /\ inflight' = inflight \ {r}
    /\ IF ok
       THEN /\ SetSnapshot(r)
            /\ timers' = IF IsTerminal(r.status) THEN ClearInterval(timers, pollRef)
                         ELSE timers
       ELSE /\ timers' = ClearInterval(timers, pollRef)
            /\ UNCHANGED <<crawl, crawlStatus, applied>>
    /\ Observe(r, ok)
    /\ UNCHANGED <<view, mounted, crawlIdParam, cleanupArmed, error, starting, pollRef,
                   nextTid, nextRid, serverJob>>

(* ---------------------------------------------------------------------- *)
(* Server and network (external collaborators)                             *)
(* ---------------------------------------------------------------------- *)
\* order in which the crawl pipeline moves a job: the statuses reachable from s
Later(s) ==
    CASE s = "none" -> {"none", "queued", "running"} \cup TerminalStatuses
      [] s = "queued" -> {"queued", "running"} \cup TerminalStatuses
      [] s = "running" -> {"running"} \cup TerminalStatuses
      [] OTHER -> {s}

\* GET crawl/{id}/status is answered with the job's status at that moment: the
\* pipeline has moved the job zero or more steps since the server last reported it
ServerStatus(r) ==
    /\ UNCHANGED <<sessVars, listVars>>
    /\ r \in inflight
    /\ r.kind # "start"
    /\ r.resp = "pending"
    /\ \E s \in Later(serverJob[r.id]) \ {"none"} :
          /\ serverJob' = [serverJob EXCEPT ![r.id] = s]
          /\ inflight' = (inflight \ {r}) \cup {[r EXCEPT !.resp = "ok", !.status = s]}
    /\ UNCHANGED <<view, mounted, crawlIdParam, cleanupArmed, crawl, crawlStatus, error,
                   starting, pollRef, timers, nextTid, nextRid,
                   applied, termSeen, failSeen>>

\* POST crawl/start creates a job and answers with its id
ServerStart(r) ==
    /\ UNCHANGED <<sessVars, listVars>>
    /\ r \in inflight
    /\ r.kind = "start"
    /\ r.resp = "pending"
    /\ \E j \in JobIds :
          /\ serverJob[j] = "none"
          /\ \A k \in JobIds : k < j => serverJob[k] # "none"
          /\ serverJob' = [serverJob EXCEPT ![j] = "queued"]
          /\ inflight' = (inflight \ {r}) \cup {[r EXCEPT !.resp = "ok", !.id = j]}
    /\ UNCHANGED <<view, mounted, crawlIdParam, cleanupArmed, crawl, crawlStatus, error,
                   starting, pollRef, timers, nextTid, nextRid,
                   applied, termSeen, failSeen>>

NextPoll ==
    \/ \E p \in 0..MaxJobs : MountProgress(p)
    \/ \E p \in 0..MaxJobs : ProgressParamChange(p)
    \/ MountCrawlPage
    \/ HandleStart
    \/ \E r \in inflight, ok \in BOOLEAN : StartCrawlResolve(r, ok)
    \/ Unmount
    \/ \E t \in timers : Tick(t)
    \/ \E r \in inflight, ok \in BOOLEAN : DeliverImmediate(r, ok)
    \/ \E r \in inflight, ok \in BOOLEAN : DeliverTick(r, ok)
    \/ \E r \in inflight : ServerStatus(r)
    \/ \E r \in inflight : ServerStart(r)

(* ---------------------------------------------------------------------- *)
(* Session layer: Credential Store, axios client, AuthProvider, routes     *)
(* ---------------------------------------------------------------------- *)
MaxCalls == 2

LoginPath == <<"/", "l", "o", "g", "i", "n">>
RegisterPath == <<"/", "r", "e", "g", "i", "s", "t", "e", "r">>
DashboardPath == <<"/", "d", "a", "s", "h", "b", "o", "a", "r", "d">>
CrawlPath == <<"/", "c", "r", "a", "w", "l">>
RootPath == <<"/">>

\* locations the model visits
Paths == {LoginPath, RegisterPath, DashboardPath, CrawlPath, RootPath}

\* routes wrapped in ProtectedRoute
ProtectedPaths == {DashboardPath, CrawlPath}

\* String.prototype.startsWith
StartsWith(s, prefix) ==
    /\ Len(s) >= Len(prefix)
    /\ SubSeq(s, 1, Len(prefix)) = prefix

\* user records and tokens the server hands out
Users == {[username |-> "alice", role |-> "admin"],
          [username |-> "bob", role |-> "reviewer"]}
Tokens == {"tok1"}

\* JSON.stringify of a user record, as a sequence of lexemes
JSONStringify(u) == <<"{", u.username, u.role, "}">>

\* a text that is not JSON
Garbage == <<"garbage">>

\* JSON.parse returns a value for txt (it throws SyntaxError otherwise)
Parses(txt) == Len(txt) = 4 /\ txt[1] = "{" /\ txt[4] = "}"

\* JSON.parse of a text JSONStringify produced
JSONParse(txt) == [username |-> txt[2], role |-> txt[3]]

\* truthiness of a string-or-null value
TruthyStr(o) == o # <<>> /\ o[1] # ""

\* the operations of the five resource clients the model issues
ClientOf(op) ==
    CASE op \in {"login", "register"} -> "auth"
      [] op \in {"getDocuments", "getDocument", "approveDocument", "reclassifyDocument",
                 "deleteDocument", "archiveDocument"} -> "documents"
      [] op \in {"startCrawl", "getCrawlStatus"} -> "crawl"
      [] op = "getPipelineStats" -> "stats"
      [] OTHER -> "audit"

Clients == {"auth", "documents", "crawl", "stats", "audit"}

\* operations issued by the views behind ProtectedRoute
PageOps ==
    {"getDocuments", "getDocument", "approveDocument", "reclassifyDocument", "deleteDocument",
     "archiveDocument", "startCrawl", "getCrawlStatus", "getPipelineStats", "getAuditLog"}

SwallowsDetail(op) ==
    op \in {"getDocuments", "getDocument", "getPipelineStats", "getAuditLog"}

\* operations wrapped in try/catch that return their module's empty envelope
Swallows(op) == op \in {"getDocuments", "getPipelineStats", "getAuditLog"}

\* outcomes of a request: HTTP status, 0 when no response was received
Statuses == {200, 401, 500, 0}

NoResp == [cid |-> 0, op |-> "none", client |-> "none", status |-> 200, runs |-> 0, redirected |-> FALSE,
           rejected |-> FALSE, result |-> "none"]

\* variant: the token is not consulted
isAuthenticatedUserOnly == user # <<>>

\* const isAuthenticated = !!user && !!token
isAuthenticated == user # <<>> /\ TruthyStr(token)

\* const isAdmin = user?.role === 'admin'
isAdmin == user # <<>> /\ user[1].role = "admin"

ResolveUnguarded(p, authed) == IF p = RootPath THEN DashboardPath ELSE p

\* what the route table renders for location p: "/" redirects to /dashboard,
\* ProtectedRoute redirects to /login unless authed
Resolve(p, authed) ==
    LET q == IF p = RootPath THEN DashboardPath ELSE p
    IN  IF q \in ProtectedPaths /\ ~authed THEN LoginPath ELSE q

RequestInterceptorAnyEntry(stored) ==
    IF stored # <<>> THEN <<"Bearer", stored[1]>> ELSE <<>>

\* request interceptor: the Authorization header put on a request
RequestInterceptor(stored) ==
    IF TruthyStr(stored) THEN <<"Bearer", stored[1]>> ELSE <<>>

\* variant: the entry is left in the store
InterceptorStoreKeeps(status, entry) == entry

\* response interceptor, error branch: what is left of a Credential Store entry
InterceptorStore(status, entry) == IF status = 401 THEN <<>> ELSE entry

InterceptorRedirectsAnyError(status, pathname) ==
    status # 200 /\ ~StartsWith(pathname, LoginPath)

\* response interceptor, error branch: whether window.location.href is assigned
InterceptorRedirects(status, pathname) ==
    status = 401 /\ ~StartsWith(pathname, LoginPath)

SessionIdle ==
    /\ storeToken = <<>>
    /\ storeUser = <<>>
    /\ user = <<>>
    /\ token = <<>>
    /\ loading = TRUE
    /\ path = RootPath
    /\ navPending = FALSE
    /\ calls = {}
    /\ nextCall = 1
    /\ lastResp = NoResp
    /\ crashed = FALSE
    /\ logoutAt = 0

\* the document has just been loaded at some location with some store content
SessionInit ==
    /\ InitPoll
    /\ storeToken \in {<<>>, <<"">>} \cup {<<t>> : t \in Tokens}
    /\ storeUser \in {<<>>, <<Garbage>>} \cup {<<JSONStringify(u)>> : u \in Users}
    /\ user = <<>>
    /\ token = <<>>
    /\ loading = TRUE
    /\ path \in Paths
    /\ navPending = FALSE
    /\ calls = {}
    /\ nextCall = 1
    /\ lastResp = NoResp
    /\ crashed = FALSE
    /\ logoutAt = 0
    /\ ListIdle

\* the document has just been loaded at some location with an empty store
FreshInit ==
    /\ SessionInit
    /\ storeToken = <<>>
    /\ storeUser = <<>>

\* first commit of the application: the routes render with user = token = null,
\* then the passive effects run (Navigate's, then AuthProvider's mount effect)
Boot ==
    /\ loading
    /\ ~crashed
    /\ IF storeUser # <<>> /\ storeUser[1] # <<>> /\ ~Parses(storeUser[1])
       THEN \* JSON.parse throws inside the effect: nothing after it runs
            /\ crashed' = TRUE
            /\ UNCHANGED <<user, token, loading>>
       ELSE /\ user' = IF storeUser # <<>> /\ storeUser[1] # <<>>
                       THEN <<JSONParse(storeUser[1])>> ELSE user
            /\ token' = IF TruthyStr(storeToken) THEN storeToken ELSE token
            /\ loading' = FALSE
            /\ UNCHANGED crashed
    /\ path' = IF path = RootPath
               THEN Resolve(DashboardPath, isAuthenticated')
               ELSE Resolve(path, FALSE)
    /\ UNCHANGED <<storeToken, storeUser, navPending, calls, nextCall, lastResp, logoutAt>>
    /\ UNCHANGED <<pollVars, listVars>>

\* client-side navigation (link, history back/forward)
Navigate(p) ==
    /\ ~loading
    /\ p \in Paths
    /\ p # path
    /\ path' = Resolve(p, isAuthenticated)
    /\ UNCHANGED <<storeToken, storeUser, user, token, loading, navPending, calls,
                   nextCall, lastResp, crashed, logoutAt>>
    /\ UNCHANGED <<pollVars, listVars>>

\* a request leaves through the axios client
Send(op) ==
    /\ nextCall <= MaxCalls
    /\ calls' = calls \cup {[cid |-> nextCall, op |-> op,
                             auth |-> RequestInterceptor(storeToken)]}
    /\ nextCall' = nextCall + 1

\* Login.handleSubmit up to await login(...)
SubmitLogin ==
    /\ ~loading
    /\ path = LoginPath
    /\ Send("login")
    /\ UNCHANGED <<storeToken, storeUser, user, token, loading, path, navPending, lastResp,
                   crashed, logoutAt>>
    /\ UNCHANGED <<pollVars, listVars>>

\* Register.handleSubmit up to await apiRegister(...)
SubmitRegister ==
    /\ ~loading
    /\ path = RegisterPath
    /\ Send("register")
    /\ UNCHANGED <<storeToken, storeUser, user, token, loading, path, navPending, lastResp,
                   crashed, logoutAt>>
    /\ UNCHANGED <<pollVars, listVars>>

\* a protected view calls one of the resource clients
PageCall(op) ==
    /\ ~loading
    /\ path \in ProtectedPaths
    /\ op \in PageOps
    /\ Send(op)
    /\ UNCHANGED <<storeToken, storeUser, user, token, loading, path, navPending, lastResp,
                   crashed, logoutAt>>
    /\ UNCHANGED <<pollVars, listVars>>

\* what logout() reads and writes, and the requests it could have issued
Session ==
    [storeToken |-> storeToken, storeUser |-> storeUser, user |-> user, token |-> token,
     calls |-> calls, nextCall |-> nextCall]

logoutKeepsUserEntry(s) ==
    [s EXCEPT !.storeToken = <<>>, !.user = <<>>, !.token = <<>>]

\* AuthProvider.logout: two removeItem calls, setUser(null), setToken(null)
logout(s) ==
    [s EXCEPT !.storeToken = <<>>, !.storeUser = <<>>, !.user = <<>>, !.token = <<>>]

\* Layout.handleLogout: logout() then navigate('/login')
Logout ==
    /\ ~loading
    /\ path \in ProtectedPaths
    /\ LET s == logout(Session)
       IN  /\ storeToken' = s.storeToken
           /\ storeUser' = s.storeUser
           /\ user' = s.user
           /\ token' = s.token
    /\ path' = LoginPath
    /\ logoutAt' = nextCall
    /\ UNCHANGED <<loading, navPending, calls, nextCall, lastResp, crashed>>
    /\ UNCHANGED <<pollVars, listVars>>

\* how the operation's promise settles for its caller
CallResult(op, status) ==
    IF status = 200 THEN "resolved"
    ELSE IF Swallows(op) THEN "default" ELSE "rejected"

AuthenticatingOpsWithRegister == {"login", "register"}

\* the operations whose continuation writes the session (AuthProvider.login only)
AuthenticatingOps == {"login"}

LoginSucceededAnyStatus(op, status) == op \in AuthenticatingOps

\* await authApi.login(...) returns instead of throwing
LoginSucceeded(op, status) == op \in AuthenticatingOps /\ status = 200

PersistUserSkipped(u) == <<>>

\* localStorage.setItem('user', JSON.stringify(response.user))
PersistUser(u) == <<JSONStringify(u)>>

LoginTokenDropped(t) == <<>>

\* setToken(response.access_token)
LoginToken(t) == <<t>>

\* the answer to call c arrives: response interceptor, then the continuation of
\* the caller (AuthProvider.login and the submitting form for the auth client)
Receive(c, status, t, u) ==
    /\ c \in calls
    /\ LET loggedIn == LoginSucceeded(c.op, status)
           registered == c.op = "register" /\ status = 200
           redirect == InterceptorRedirects(status, path)
       IN  /\ storeToken' = IF loggedIn THEN <<t>> ELSE InterceptorStore(status, storeToken)
           /\ storeUser' = IF loggedIn THEN PersistUser(u)
                           ELSE InterceptorStore(status, storeUser)
           /\ user' = IF loggedIn THEN <<u>> ELSE user
           /\ token' = IF loggedIn THEN LoginToken(t) ELSE token
           /\ path' = IF loggedIn THEN Resolve(DashboardPath, isAuthenticated') ELSE path
           /\ navPending' = (navPending \/ redirect)
           /\ IF registered
              THEN /\ nextCall <= MaxCalls
                   /\ calls' = (calls \ {c}) \cup
                         {[cid |-> nextCall, op |-> "login",
                           auth |-> RequestInterceptor(storeToken)]}
                   /\ nextCall' = nextCall + 1
              ELSE /\ calls' = calls \ {c}
                   /\ UNCHANGED nextCall
           /\ lastResp' = [cid |-> c.cid, op |-> c.op, client |-> ClientOf(c.op),
                           status |-> status,
                           runs |-> 1, redirected |-> redirect,
                           rejected |-> (status # 200),
                           result |-> CallResult(c.op, status)]
    /\ UNCHANGED <<loading, crashed, logoutAt>>
    /\ UNCHANGED <<pollVars, listVars>>

\* the navigation started by window.location.href = '/login' replaces the document
Reload ==
    /\ navPending
    /\ navPending' = FALSE
    /\ path' = LoginPath
    /\ user' = <<>>
    /\ token' = <<>>
    /\ loading' = TRUE
    /\ calls' = {}
    /\ UNCHANGED <<storeToken, storeUser, nextCall, lastResp, crashed, logoutAt>>
    /\ UNCHANGED <<pollVars, listVars>>

SessionNext ==
    \/ Boot
    \/ \E p \in Paths : Navigate(p)
    \/ SubmitLogin
    \/ SubmitRegister
    \/ \E op \in PageOps : PageCall(op)
    \/ Logout
    \/ \E c \in calls, status \in Statuses, t \in Tokens, u \in Users : Receive(c, status, t, u)
    \/ Reload

SessionSpec == SessionInit /\ [][SessionNext]_vars

\* the same application started on an empty Credential Store
FreshSpec == FreshInit /\ [][SessionNext]_vars

\* call c is answered in this step with the given status
Answered(c, status) ==
    /\ c \in calls
    /\ c \notin calls'
    /\ lastResp'.cid = c.cid
    /\ lastResp'.status = status

Init == InitPoll /\ SessionIdle /\ ListIdle

\* one list fetch with filters and a server answer drawn from the bounded sets
ListInit ==
    /\ InitPoll
    /\ SessionIdle
    /\ listIn \in DocumentsCalls \cup AuditCalls \cup PipelineCalls \cup DashboardCalls
                 \cup BareCalls
    /\ listOut = NoList

ListSpec == ListInit /\ [][ListNext]_vars

Next == NextPoll

Spec == Init /\ [][Next]_vars

\* the browser's event loop and the network are fair: an interval that stays
\* active fires, a request that was sent is answered, an answer is delivered
Fairness ==
    /\ WF_vars(\E t \in timers : Tick(t))
    /\ WF_vars(\E r \in inflight : ServerStatus(r))
    /\ WF_vars(\E r \in inflight : ServerStart(r))
    /\ WF_vars(\E r \in inflight, ok \in BOOLEAN : StartCrawlResolve(r, ok))
    /\ WF_vars(\E r \in inflight, ok \in BOOLEAN : DeliverImmediate(r, ok))
    /\ WF_vars(\E r \in inflight, ok \in BOOLEAN : DeliverTick(r, ok))

LiveSpec == Spec /\ Fairness

TypeOK ==
    /\ view \in {"none", "Progress", "CrawlPage"}
    /\ mounted \in BOOLEAN
    /\ pollRef \in 0..MaxTimers
    /\ \A t \in timers : t.tid \in 1..MaxTimers /\ t.id \in JobIds
    /\ nextRid \in 1..(MaxRequests + 1)
    /\ path \in Paths
    /\ nextCall \in 1..(MaxCalls + 1)
    /\ lastResp.client \in Clients \cup {"none"}

(* ====================================================================== *)
(* Properties of the pollers                                               *)
(* ====================================================================== *)
\* the interval pollRef.current refers to is still active
ScheduleActive == \E t \in timers : t.tid = pollRef

\* status requests sent and not yet delivered
StatusInFlight == {r \in inflight : r.kind # "start"}

\* the poller has been stopped and not started again
Stopped == view # "none" /\ (~mounted \/ (view = "Progress" /\ ~cleanupArmed))

\* C1: status fetches of a poller are serialized: never two in flight, and the
\* stored snapshot is never overwritten by the response of an earlier-issued fetch
C1_Serialized ==
    /\ [](Cardinality({r \in StatusInFlight : r.sess = pollRef}) <= 1)
    /\ [][applied'.sess = applied.sess => applied'.rid >= applied.rid]_vars

\* C2: once the poller is stopped (cleanup / unmount ran, no new start), its
\* state (snapshot, error) is never mutated again
C2_NoMutationAfterStop ==
    [][(Stopped /\ Stopped') => UNCHANGED <<crawl, crawlStatus, error>>]_vars

\* C3: once a fetch of the session returned a terminal status, the schedule is
\* cancelled and no tick issues a further request
C3_TerminalEndsPolling ==
    /\ [](termSeen => ~ScheduleActive)
    /\ [][termSeen => ~(\E r \in inflight' \ inflight : r.kind = "tick")]_vars

\* C4: after the view is unmounted no interval is active
C4_NoDanglingTimer == (view # "none" /\ ~mounted) => timers = {}

\* C5: once a fetch of the session failed, the schedule is cancelled and no tick
\* issues a further request
C5_FailFast ==
    /\ [](failSeen => ~ScheduleActive)
    /\ [][failSeen => ~(\E r \in inflight' \ inflight : r.kind = "tick")]_vars

\* C6: at most one interval is active per poller instance in every reachable state
C6_OneSchedule == Cardinality(timers) <= 1

\* a second poll was started after the first interval had fired, and only the
\* new interval is active
C6_Witness ==
    /\ pollRef = 2
    /\ \E t \in timers : t.tid = 2
    /\ \E r \in inflight : r.kind = "tick" /\ r.sess = 1

\* C7: a terminal snapshot stored by the session is never replaced by a different
\* snapshot while the session lasts
C7_TerminalImmutable ==
    [][(/\ termSeen
        /\ IsTerminal(Snapshot.status)
        /\ pollRef' = pollRef
        /\ applied.sess = pollRef
        /\ applied'.sess = pollRef) => Snapshot' = Snapshot]_vars

(* ====================================================================== *)
(* Properties of the session layer                                         *)
(* ====================================================================== *)
\* the step processes the response of a call
Processed401 == lastResp'.cid # lastResp.cid /\ lastResp'.status = 401

\* C8: for every 401 response, whichever client issued the request, the response
\* interceptor runs once, removes token and user from the Credential Store, assigns
\* the login location exactly when the path does not start with /login, and rejects
C8_UnauthorizedTeardown ==
    [][Processed401 =>
         /\ lastResp'.runs = 1
         /\ storeToken' = <<>>
         /\ storeUser' = <<>>
         /\ lastResp'.redirected = ~StartsWith(path, LoginPath)
         /\ (lastResp'.redirected => navPending')
         /\ (~lastResp'.redirected => navPending' = navPending)
         /\ lastResp'.rejected]_vars

\* a 401 answered a client that swallows errors: the store is empty and the
\* redirect to the login view is under way
C8_Witness ==
    /\ lastResp.status = 401
    /\ lastResp.result = "default"
    /\ lastResp.redirected
    /\ navPending
    /\ storeToken = <<>>
    /\ storeUser = <<>>

\* C9: after a 401 response has been processed the Session Controller is not
\* Authenticated, also when no redirect happens because the location is the login view
C9_SessionDestroyed == (lastResp.status = 401 /\ ~navPending) => ~isAuthenticated

\* C10: isAuthenticated holds exactly when a user record and a non-empty token are
\* both in the controller's state, isAdmin exactly when the user's role is admin
C10_DerivedFlags ==
    /\ isAuthenticated <=>
          (/\ \E u \in Users : user = <<u>>
           /\ \E t \in Tokens : token = <<t>>)
    /\ isAdmin <=> (\E u \in Users : user = <<u>> /\ u.role = "admin")

\* booted with an admin's user record but no usable token: admin, not authenticated
C10_Witness == ~loading /\ isAdmin /\ token = <<>> /\ ~isAuthenticated

\* C11: started on an empty Credential Store, isAuthenticated is false while the
\* controller is freshly constructed, false in the state right after logout(),
\* true in the state right after a login() resolves successfully, and no state
\* has exactly one of user and token set in the controller.
C11_IsAuthenticatedLifecycle ==
    /\ [](loading => ~isAuthenticated)
    /\ [][Logout => ~isAuthenticated']_vars
    /\ [][\A c \in calls : (c.op = "login" /\ Answered(c, 200)) => isAuthenticated']_vars
    /\ []((user = <<>>) <=> (token = <<>>))

\* a successful login has just been processed and the controller is authenticated
C11_Witness ==
    /\ lastResp.op = "login"
    /\ lastResp.status = 200
    /\ isAuthenticated
    /\ calls = {}

\* C12: started on an empty Credential Store, in every state the store holds
\* either both the token and the user record or neither of them.
C12_StoreBothOrNeither == (storeToken = <<>>) <=> (storeUser = <<>>)

\* the store was filled by a login and emptied again by a 401 teardown
C12_Witness ==
    /\ lastResp.status = 401
    /\ lastResp.cid > 1
    /\ storeToken = <<>>
    /\ storeUser = <<>>

\* an entry of the Credential Store is not written in this step
NotWritten(before, after) == after \in {before, <<>>}

\* C13: a login() whose request fails while user and token are null leaves both
\* null, writes nothing to the Credential Store and rejects to its caller.
C13_FailedLoginStaysOut ==
    [][\A c \in calls, st \in Statuses \ {200} :
          (c.op = "login" /\ Answered(c, st) /\ user = <<>> /\ token = <<>>)
          => /\ user' = <<>>
             /\ token' = <<>>
             /\ NotWritten(storeToken, storeToken')
             /\ NotWritten(storeUser, storeUser')
             /\ lastResp'.result = "rejected"]_vars

\* a rejected login has been processed on the login view of a signed-out session
C13_Witness ==
    /\ lastResp.op = "login"
    /\ lastResp.status = 401
    /\ lastResp.result = "rejected"
    /\ ~loading
    /\ path = LoginPath
    /\ user = <<>>
    /\ token = <<>>

\* C14: from every state logout() issues no request, removes token and user from
\* the Credential Store, sets the controller's user and token to null, and a
\* second logout() yields the state of the first.
C14_LogoutIdempotent ==
    /\ [](LET once == logout(Session)
          IN  /\ once.calls = calls
              /\ once.nextCall = nextCall
              /\ once.storeToken = <<>>
              /\ once.storeUser = <<>>
              /\ once.user = <<>>
              /\ once.token = <<>>
              /\ logout(once) = once)
    /\ [][Logout => /\ UNCHANGED <<calls, nextCall>>
                    /\ storeToken' = <<>>
                    /\ storeUser' = <<>>
                    /\ user' = <<>>
                    /\ token' = <<>>]_vars

\* a session opened by a login has been closed by logout() with a request in flight
C14_Witness ==
    /\ ~loading
    /\ lastResp.op = "login"
    /\ lastResp.status = 200
    /\ path = LoginPath
    /\ calls # {}
    /\ user = <<>>
    /\ token = <<>>
    /\ storeToken = <<>>
    /\ storeUser = <<>>

\* C15 as stated: whether register succeeds or fails, the controller's user and
\* token and both entries of the Credential Store are unchanged, and a success
\* resolves with the created user.
C15_RegisterFrame ==
    [][\A c \in calls, st \in Statuses :
          (c.op = "register" /\ Answered(c, st))
          => /\ UNCHANGED <<user, token, storeToken, storeUser>>
             /\ (st = 200 => lastResp'.result = "resolved")]_vars

\* C15 amended: register never changes the controller's user and token; it leaves
\* the Credential Store unchanged unless its response is a 401, for which the
\* shared response interceptor removes both entries; a success resolves with the
\* created user.
C15_RegisterFrameBut401 ==
    [][\A c \in calls, st \in Statuses :
          (c.op = "register" /\ Answered(c, st))
          => /\ UNCHANGED <<user, token>>
             /\ (st # 401 => UNCHANGED <<storeToken, storeUser>>)
             /\ (st = 401 => storeToken' = <<>> /\ storeUser' = <<>>)
             /\ (st = 200 => lastResp'.result = "resolved")]_vars

\* a signed-in user's register request was answered 401: the store is empty, the
\* controller still holds user and token
C15_Witness ==
    /\ lastResp.op = "register"
    /\ lastResp.status = 401
    /\ user # <<>>
    /\ token # <<>>
    /\ storeToken = <<>>
    /\ storeUser = <<>>

\* both entries of the Credential Store are persisted and usable
Persisted == TruthyStr(storeToken) /\ storeUser # <<>>

\* C16: for every content of the Credential Store, boot never fails and issues
\* no request, and when it completes the controller is Authenticated exactly
\* when both a token and a user were persisted.
C16_BootNeverFails ==
    /\ []~crashed
    /\ [][Boot => /\ calls' = calls
                  /\ ~loading'
                  /\ (isAuthenticated' <=> Persisted)]_vars

\* C17: when the application starts on a protected route with both token and
\* user persisted, boot restores the session and stays on that route: no
\* redirect to the login view is issued.
C17_ReloadKeepsRoute ==
    [][(Boot /\ path \in ProtectedPaths /\ Persisted /\ Parses(storeUser[1]))
       => (path' = path /\ isAuthenticated')]_vars

\* the header the request interceptor must produce for a store token entry
ExpectedAuth(stored) ==
    IF stored # <<>> /\ stored[1] # "" THEN <<"Bearer", stored[1]>> ELSE <<>>

\* a view is shown from which a request can be issued
CanIssue ==
    /\ ~loading
    /\ nextCall <= MaxCalls
    /\ path \in {LoginPath, RegisterPath} \cup ProtectedPaths

\* C18: every request that leaves carries a bearer header with the token stored
\* at send time exactly when that token is non-empty, and a request is sent
\* whatever the store holds.
C18_BearerAtSendTime ==
    /\ [][\A c \in calls' \ calls : c.auth = ExpectedAuth(storeToken')]_vars
    /\ [](CanIssue =>
            ENABLED (SubmitLogin \/ SubmitRegister \/ \E op \in PageOps : PageCall(op)))

\* a request left without a header while the store held an empty token
C18_Witness == \E c \in calls : c.auth = <<>> /\ storeToken = <<"">>

\* C19: in every result of getDocuments pages is a number, at least 1, and equal
\* to ceil(total / page_size) raised to 1.
C19_PagesFloorOne ==
    listOut.api = "documents" =>
        /\ listOut.pages.t = "number"
        /\ listOut.pages.n >= 1
        /\ listOut.pages.n =
               LET c == CeilDiv(listOut.total.n, listOut.page_size.n)
               IN  IF c < 1 THEN 1 ELSE c

\* C20: every envelope returned by getDocuments and getAuditLog has a numeric
\* total of at least 0 and a numeric current page of at least 1.
C20_TotalAndPageClamped ==
    listOut.api \in {"documents", "audit"} =>
        /\ listOut.total.t = "number"
        /\ listOut.total.n >= 0
        /\ listOut.page.t = "number"
        /\ listOut.page.n >= 1

\* getDocuments resolved from a response that has a body
DocumentsNormalized ==
    /\ listOut.api = "documents"
    /\ listIn.outcome = "ok"
    /\ listIn.response.body

\* getDocuments({}) answered with {documents: [one document], total: 1}
OneDocumentCall ==
    /\ listIn.api = "documents"
    /\ listIn.outcome = "ok"
    /\ listIn.filters = NoFilters
    /\ listIn.response.body
    /\ listIn.response.data.rows = Arr(<<1>>)
    /\ listIn.response.data.total = Num(1)
    /\ listIn.response.data.limit = Undefined

\* what the one-document call must resolve with
OneDocumentResult ==
    /\ listOut.pages = Num(1)
    /\ listOut.page_size = Num(DefaultLimit)
    /\ Len(listOut.items.a) = 1

\* C21 as stated: page_size is the response's limit when the response has one,
\* otherwise the limit filter, otherwise 20; items are the response's documents;
\* the one-document call yields pages 1, page_size 20 and one item.
C21_PageSizeByPresence ==
    DocumentsNormalized =>
        LET d == listIn.response.data
            f == listIn.filters
        IN  /\ listOut.page_size =
                   IF d.limit.t = "number" THEN d.limit
                   ELSE IF f.limit.t = "number" THEN f.limit
                   ELSE Num(DefaultLimit)
            /\ (d.rows.t = "array" => listOut.items = d.rows)
            /\ (OneDocumentCall => OneDocumentResult)

\* C21 amended: page_size is the response's limit when that is a non-zero
\* number, otherwise the limit filter when that is a non-zero number, otherwise
\* 20; items are the response's documents when they are an array; the
\* one-document call yields pages 1, page_size 20 and one item.
C21_PageSizeByTruthiness ==
    DocumentsNormalized =>
        LET d == listIn.response.data
            f == listIn.filters
        IN  /\ listOut.page_size =
                   IF d.limit.t = "number" /\ d.limit.n # 0 THEN d.limit
                   ELSE IF f.limit.t = "number" /\ f.limit.n # 0 THEN f.limit
                   ELSE Num(DefaultLimit)
            /\ (d.rows.t = "array" => listOut.items = d.rows)
            /\ (OneDocumentCall => OneDocumentResult)

\* the one-document call has resolved
C21_Witness == listOut.api = "documents" /\ OneDocumentCall /\ OneDocumentResult

\* C22: for every error kind each list-fetch operation resolves with the fixed
\* default envelope of its module and does not reject; for getDocuments that is
\* no documents, no items, total 0, pages 1, page 1, page_size 20.
C22_ListFetchNeverRaises ==
    (listOut # NoList /\ listIn.outcome \in ErrorKinds) =>
        /\ listOut.api = listIn.api
        /\ listOut = EmptyEnvelope(listIn.api)
        /\ listIn.api = "documents" =>
               /\ listOut.documents = Arr(<<>>)
               /\ listOut.items = Arr(<<>>)
               /\ listOut.total = Num(0)
               /\ listOut.pages = Num(1)
               /\ listOut.page = Num(1)
               /\ listOut.page_size = Num(DefaultLimit)

\* getDashboardStats was answered 401 and resolved with its default
C22_Witness ==
    /\ listIn.api = "dashboard"
    /\ listIn.outcome = "401"
    /\ listOut = EMPTY_DASHBOARD

\* C23: when getAuditLog fails entirely (its request rejects, or the body is
\* not JSON) the envelope is entries [], total 0, page 1, page_size 50 whatever
\* filters were passed: the requested limit does not appear in it.
C23_AuditFailureDefaults ==
    (listOut # NoList /\ listIn.api = "audit"
        /\ listIn.outcome \in ErrorKinds \cup {"malformed"}) =>
        /\ listOut.entries = Arr(<<>>)
        /\ listOut.total = Num(0)
        /\ listOut.page = Num(1)
        /\ listOut.page_size = Num(AuditPageSize)
        /\ listOut.page_size # listIn.filters.limit

\* getAuditLog with a limit filter got a body that is not JSON and has resolved
C23_Witness ==
    /\ listIn.api = "audit"
    /\ listIn.outcome = "malformed"
    /\ listIn.filters.limit = Num(MaxLimit)
    /\ listOut # NoList
    /\ listOut.page_size = Num(AuditPageSize)

\* C24: for every successful response the array fields of the result are
\* arrays: documents and items of getDocuments, entries of getAuditLog.
C24_ArraysNeverNull ==
    (listOut # NoList /\ listIn.outcome = "ok") =>
        /\ listIn.api = "documents" =>
               listOut.documents.t = "array" /\ listOut.items.t = "array"
        /\ listIn.api = "audit" => listOut.entries.t = "array"

\* the detail and mutating operations
PropagatingOps ==
    {"login", "register", "startCrawl", "getCrawlStatus", "getDocument", "approveDocument",
     "reclassifyDocument", "archiveDocument", "deleteDocument"}

\* C25: whenever the request of a detail or mutating operation fails, the
\* operation rejects with the error and does not resolve with a default value.
C25_ErrorsPropagate ==
    [][\A c \in calls, st \in Statuses \ {200} :
          (c.op \in PropagatingOps /\ Answered(c, st))
          => /\ lastResp'.rejected
             /\ lastResp'.result = "rejected"]_vars

\* a failed getDocument has been processed and rejected to its caller
C25_Witness ==
    /\ lastResp.op = "getDocument"
    /\ lastResp.status = 500
    /\ lastResp.result = "rejected"

\* r is a status request of an earlier polling session, issued for another job
\* than the one the current schedule polls
OldRequest(r) ==
    /\ r.kind # "start"
    /\ r.sess # pollRef
    /\ \E t \in timers : t.tid = pollRef /\ t.id # r.id

\* C26: once the poller has been restarted for a new job, the response or the
\* failure of a status request of the previous job neither overwrites the stored
\* snapshot nor cancels the schedule the poller currently refers to.
C26_OldRequestsInert ==
    [][\A r \in inflight :
          (OldRequest(r) /\ r \notin inflight')
          => /\ UNCHANGED <<crawl, crawlStatus>>
             /\ ScheduleActive']_vars

\* the view was torn down
TornDown == view # "none" /\ ~mounted

\* C27: under fair ticks and responses, once the view is torn down, or once a
\* status fetch of the session returned a terminal status, the poller reaches a
\* state from which no schedule is active any more.
C27_PollingTerminates ==
    /\ TornDown ~> [](timers = {})
    /\ (termSeen /\ (ScheduleActive => nextRid <= MaxRequests))
          ~> (~ScheduleActive \/ ~termSeen)

\* logout() has run and nothing has re-established the session since
LoggedOut ==
    /\ logoutAt > 0
    /\ ~isAuthenticated
    /\ storeToken = <<>>
    /\ storeUser = <<>>

\* a login() call made after the last logout() succeeds in this step
FreshLoginSucceeds ==
    \E c \in calls : c.op = "login" /\ c.cid >= logoutAt /\ Answered(c, 200)

\* C28: after logout() the controller stays Unauthenticated and the Credential
\* Store stays empty until a login() made after that logout succeeds; the answer
\* to a login that was in flight when logout() ran changes neither.
C28_LogoutIsFinal ==
    [][(LoggedOut /\ ~FreshLoginSucceeds) => LoggedOut']_vars

\* C29: for an outcome other than 401 the response interceptor removes nothing
\* from the Credential Store and starts no navigation: a success is handed on as
\* a success, an error without response or with another status is re-rejected,
\* and the store and the location are left as they were.
C29_InterceptorFrame ==
    [][\A c \in calls, st \in Statuses \ {401} :
          Answered(c, st)
          => /\ InterceptorStore(st, storeToken) = storeToken
             /\ InterceptorStore(st, storeUser) = storeUser
             /\ ~InterceptorRedirects(st, path)
             /\ navPending' = navPending
             /\ ~lastResp'.redirected
             /\ lastResp'.rejected = (st # 200)
             /\ (st = 200 => lastResp'.result = "resolved")
             /\ (~LoginSucceeded(c.op, st) => UNCHANGED <<storeToken, storeUser, path>>)]_vars

\* a 500 was processed on a protected view of a signed-in session: nothing moved
C29_Witness ==
    /\ lastResp.status = 500
    /\ lastResp.rejected
    /\ ~navPending
    /\ path = DashboardPath
    /\ storeToken # <<>>
    /\ storeUser # <<>>

\* C30: protected content is shown only in states where isAuthenticated is
\* true; for every protected route ProtectedRoute yields the route itself when
\* isAuthenticated holds and the login view otherwise.
C30_ProtectedOnlyWhenAuthenticated ==
    /\ (~loading /\ path \in ProtectedPaths) => isAuthenticated
    /\ \A p \in ProtectedPaths :
          Resolve(p, isAuthenticated) = IF isAuthenticated THEN p ELSE LoginPath

\* a signed-in reviewer is shown a protected view
C30_Witness ==
    /\ ~loading
    /\ path = CrawlPath
    /\ isAuthenticated
    /\ user[1].role = "reviewer"

====
